---- MODULE Spec2Model ----
(***************************************************************************)
(* Model of slackclient/server.py: the Server object, which owns the       *)
(* websocket connection and the attached users and channels.               *)
(*                                                                         *)
(* Text is modelled as a sequence of tokens, so that "{0}\n".format(..),   *)
(* string concatenation and rstrip() are computed, not assumed.            *)
(***************************************************************************)
EXTENDS Integers, Sequences, FiniteSets, TLC

(***************************************************************************)
(* Bounds of the model.                                                    *)
(***************************************************************************)
\* handshake requests (api_requester.do of rtm.start / rtm.connect) per run
MaxHandshakes == 2
\* frames that can be waiting on the stream at once
MaxInbox == 2
\* send calls that get as far as websocket.send per run
MaxSends == 1
\* explicit attach_user / attach_channel calls per run
MaxAttach == 2
MaxCalls == 2

(***************************************************************************)
(* Program constants.                                                      *)
(***************************************************************************)
\* `if reply.status_code != 200`
HTTP_OK == 200
\* `if e.errno == 2`
SSL_WANT_READ == 2

\* Python's None, where a string is expected / where an object is expected /
\* where a list is expected
None == "None"
NoneObj == [py |-> "None"]
NoneList == <<"None">>

(***************************************************************************)
(* Server fields (Server.__init__) and the environment around them.        *)
(***************************************************************************)
VARIABLES
    login_data,   \* self.login_data
    domain,       \* self.domain
    username,     \* self.username
    websocket,    \* self.websocket: None or the handle of the open stream
    users,        \* self.users: SearchDict, user_id -> User
    channels,     \* self.channels: SearchList of Channel
    connected,    \* self.connected
    ws_url,       \* self.ws_url
    handshakes,   \* number of handshake requests made to the API
    opens,        \* number of wsclient.connect attempts
    streams,      \* handles of the streams opened and not closed
    inbox,        \* frames waiting on the current stream, oldest first
    wire,         \* texts written to a stream, oldest first
    unawaited,    \* texts of the send coroutines created and never run
    reply,        \* the reply of the last handshake request
    rd,           \* the _websocket_safe_read coroutine and its Future: where
                  \* it stands (pc), its data, the Future's result (done,
                  \* result), the frames that were there at the call (avail)
                  \* and the exception recv raised into it (fault)
    ret,          \* how the last call on the Server ended
    attaches,     \* number of explicit attach calls made
    msg_args,     \* the arguments of the last rtm_send_message call
    first_ch,     \* history: channel_id -> arguments of its first attach
    last_usr      \* history: user_id -> arguments of its latest attach

server == <<login_data, domain, username, websocket, users, channels,
            connected, ws_url>>
session == <<login_data, domain, username, websocket, connected, ws_url>>
directory == <<users, channels>>
history == <<first_ch, last_usr>>
vars == <<login_data, domain, username, websocket, users, channels,
          connected, ws_url, handshakes, opens, streams, inbox, wire,
          unawaited, reply, rd, ret, attaches, msg_args, first_ch,
          last_usr>>

(***************************************************************************)
(* The Directory: users (attach_user) and channels (attach_channel).       *)
(***************************************************************************)
Min(S) == CHOOSE m \in S : \A n \in S : m <= n

\* Channel(server, name, channel_id, members) / User(server, name, user_id,
\* real_name, tz)
Channel(name, channel_id, members) ==
    [name |-> name, id |-> channel_id, members |-> members]
User(name, user_id, real_name, tz) ==
    [name |-> name, id |-> user_id, real_name |-> real_name, tz |-> tz]

\* self.channels.find(x): the lookup of the channel list, by identifier
\* first, then by name, the first match winning; None when nothing matches
find(chs, x) ==
    LET byId == {i \in 1..Len(chs) : chs[i].id = x}
        byName == {i \in 1..Len(chs) : chs[i].name = x}
    IN  IF byId # {} THEN chs[Min(byId)]
        ELSE IF byName # {} THEN chs[Min(byName)]
        ELSE NoneObj

\* attach_channel mutated: the list is assigned, not appended to
attach_channel_only(chs, name, channel_id, members) ==
    LET m == IF members = NoneList THEN <<>> ELSE members
    IN  IF find(chs, channel_id) = NoneObj
        THEN << Channel(name, channel_id, m) >>
        ELSE chs

\* attach_channel(name, channel_id, members=None) on the channel list chs
attach_channel(chs, name, channel_id, members) ==
    LET m == IF members = NoneList THEN <<>> ELSE members
    IN  IF find(chs, channel_id) = NoneObj
        THEN Append(chs, Channel(name, channel_id, m))
        ELSE chs

\* dict.update({k: v})
update(d, k, v) ==
    [x \in DOMAIN d \cup {k} |-> IF x = k THEN v ELSE d[x]]

\* attach_user mutated: keeps the entry already stored under the identifier
attach_user_keep(us, name, user_id, real_name, tz) ==
    IF user_id \in DOMAIN us THEN us
    ELSE update(us, user_id, User(name, user_id, real_name, tz))

\* attach_user(name, user_id, real_name, tz) on the user mapping us
attach_user(us, name, user_id, real_name, tz) ==
    update(us, user_id, User(name, user_id, real_name, tz))

\* fill_channel mutated: a missing name gets the default of a missing tz
fill_channel_unknown(channel) ==
    LET c1 == IF "name" \in DOMAIN channel THEN channel
              ELSE update(channel, "name", "unknown")
    IN  IF "members" \in DOMAIN c1 THEN c1 ELSE update(c1, "members", <<>>)

\* the loop body of parse_channel_data: the defaults are written into the
\* record itself (channel["name"] = channel["id"], channel["members"] = [])
fill_channel(channel) ==
    LET c1 == IF "name" \in DOMAIN channel THEN channel
              ELSE update(channel, "name", channel["id"])
    IN  IF "members" \in DOMAIN c1 THEN c1 ELSE update(c1, "members", <<>>)

\* the arguments parse_channel_data hands to attach_channel
channel_args(channel) ==
    LET c == fill_channel(channel)
    IN  [name |-> c["name"], id |-> c["id"], members |-> c["members"]]

\* the loop body of parse_user_data: user["tz"] = "unknown",
\* user["real_name"] = user["name"]
fill_user(user) ==
    LET u1 == IF "tz" \in DOMAIN user THEN user
              ELSE update(user, "tz", "unknown")
    IN  IF "real_name" \in DOMAIN u1 THEN u1
        ELSE update(u1, "real_name", u1["name"])

\* the arguments parse_user_data hands to attach_user
user_args(user) ==
    LET u == fill_user(user)
    IN  [name |-> u["name"], id |-> u["id"], real_name |-> u["real_name"],
         tz |-> u["tz"]]

\* a list of the login data after a parse went over it: the records are
\* the ones the parse wrote its defaults into
filled_channels(records) ==
    [i \in 1..Len(records) |-> fill_channel(records[i])]
filled_users(records) ==
    [i \in 1..Len(records) |-> fill_user(records[i])]

RECURSIVE parse_channel_data(_, _)
parse_channel_data(chs, channel_data) ==
    IF channel_data = <<>> THEN chs
    ELSE LET a == channel_args(Head(channel_data))
         IN  parse_channel_data(attach_channel(chs, a.name, a.id, a.members),
                                Tail(channel_data))

RECURSIVE parse_user_data(_, _)
parse_user_data(us, user_data) ==
    IF user_data = <<>> THEN us
    ELSE LET a == user_args(Head(user_data))
         IN  parse_user_data(attach_user(us, a.name, a.id, a.real_name, a.tz),
                             Tail(user_data))

\* history of the attach_channel calls: the arguments of the first attach of
\* each identifier
RECURSIVE note_channels(_, _)
note_channels(fc, channel_data) ==
    IF channel_data = <<>> THEN fc
    ELSE LET a == channel_args(Head(channel_data))
         IN  note_channels(IF a.id \in DOMAIN fc THEN fc
                           ELSE update(fc, a.id, Channel(a.name, a.id, a.members)),
                           Tail(channel_data))

\* history of the attach_user calls: the arguments of the latest attach of
\* each identifier
RECURSIVE note_users(_, _)
note_users(lu, user_data) ==
    IF user_data = <<>> THEN lu
    ELSE LET a == user_args(Head(user_data))
         IN  note_users(update(lu, a.id, User(a.name, a.id, a.real_name, a.tz)),
                        Tail(user_data))

(***************************************************************************)
(* Inputs: what the API collaborator and the stream can hand the Server.   *)
(***************************************************************************)
ChannelIds == {"C1", "C2"}
\* a channel name is any string; parse_channel_data itself stores an
\* identifier as a name
ChannelNames == {"general", "C2"}
MemberLists == {<<"U1">>}
UserIds == {"U1", "U2"}
UserNames == {"alice", "bob"}
RealNames == {"Alice B"}
Timezones == {"UTC"}
Urls == {"wss://a", "wss://b"}

\* the lists of a handshake response; records may lack optional fields and
\* identifiers may repeat
Snapshots ==
    { [channels |-> <<>>, groups |-> <<>>, ims |-> <<>>, users |-> <<>>],
      [channels |-> << [id |-> "C1", name |-> "general", members |-> <<"U1">>] >>,
       groups |-> << [id |-> "C2"] >>,
       ims |-> << [id |-> "C1", name |-> "C2"] >>,
       users |-> << [id |-> "U1", name |-> "alice"],
                    [id |-> "U1", name |-> "bob", real_name |-> "Alice B",
                     tz |-> "UTC"] >>],
      [channels |-> << [id |-> "C1", name |-> "C2", members |-> <<>>] >>,
       groups |-> << [id |-> "C2", name |-> "general", members |-> <<"U1">>] >>,
       ims |-> <<>>,
       users |-> << [id |-> "U2", name |-> "bob", tz |-> "UTC"],
                    [id |-> "U1", name |-> "alice",
                     real_name |-> "Alice B"] >>] }

\* reply.json() of a handshake
Bodies ==
    { [ok |-> o, url |-> u, team |-> [domain |-> "acme"], self |-> [name |-> "bot"],
       channels |-> s.channels, groups |-> s.groups, ims |-> s.ims,
       users |-> s.users] : o \in BOOLEAN, u \in Urls, s \in Snapshots }

\* what api_requester.do returns: every successful handshake, and for the
\* refused ones (a non-success status, ok false) one body of each kind
FullBody(o) ==
    CHOOSE b \in Bodies : b.ok = o /\ b.url = "wss://b" /\ b.channels # <<>>
                          /\ b.users[1].id = "U2"
Replies ==
    [status_code : {HTTP_OK}, body : {b \in Bodies : b.ok}]
        \cup [status_code : {HTTP_OK}, body : {FullBody(FALSE)}]
        \cup [status_code : {500}, body : {FullBody(TRUE), FullBody(FALSE)}]

NoReply == [method |-> None]
NoFrames == <<>>
\* how a call ended: its name and arguments, the exception its own try
\* block caught (send_to_websocket), and the value returned or the exception
\* raised to the caller with its message
Returned(op, arg, caught, val) ==
    [op |-> op, arg |-> arg, caught |-> caught, exc |-> None, msg |-> None,
     val |-> val]
Raised(op, arg, caught, exc, msg) ==
    [op |-> op, arg |-> arg, caught |-> caught, exc |-> exc, msg |-> msg,
     val |-> <<>>]

(***************************************************************************)
(* rtm_connect and what it calls.                                          *)
(***************************************************************************)
\* connect_method = "rtm.start" if use_rtm_start else "rtm.connect"
connect_method(use_rtm_start) ==
    IF use_rtm_start THEN "rtm.start" ELSE "rtm.connect"

\* status_ok mutated: the status code is not looked at
status_ok_any(r) == TRUE

\* the negation of `reply.status_code != 200`
status_ok(r) == r.status_code = HTTP_OK

\* login_ok mutated: the ok field is not looked at
login_ok_any(body) == TRUE

\* `if login_data["ok"]`
login_ok(body) == body.ok

\* parses mutated: a reconnect parses the login data too
parses_always(reconnect) == TRUE

\* `if not reconnect`
parses(reconnect) == ~reconnect

\* parse_slack_login_data mutated: the lists are parsed whatever the variant
parse_slack_login_data_any(body, use_rtm_start) ==
    /\ login_data' = [body EXCEPT
                          !.channels = filled_channels(body.channels),
                          !.groups = filled_channels(body.groups),
                          !.users = filled_users(body.users),
                          !.ims = filled_channels(body.ims)]
    /\ domain' = body.team.domain
    /\ username' = body.self.name
    /\ channels' = parse_channel_data(
                       parse_channel_data(
                           parse_channel_data(channels, body.channels),
                           body.groups),
                       body.ims)
    /\ users' = parse_user_data(users, body.users)
    /\ first_ch' = note_channels(first_ch,
                       body.channels \o body.groups \o body.ims)
    /\ last_usr' = note_users(last_usr, body.users)

\* parse_slack_login_data(login_data, use_rtm_start)
parse_slack_login_data(body, use_rtm_start) ==
    /\ login_data' = IF use_rtm_start
                     THEN [body EXCEPT
                              !.channels = filled_channels(body.channels),
                              !.groups = filled_channels(body.groups),
                              !.users = filled_users(body.users),
                              !.ims = filled_channels(body.ims)]
                     ELSE body
    /\ domain' = body.team.domain
    /\ username' = body.self.name
    /\ IF use_rtm_start
       THEN /\ channels' = parse_channel_data(
                               parse_channel_data(
                                   parse_channel_data(channels, body.channels),
                                   body.groups),
                               body.ims)
            /\ users' = parse_user_data(users, body.users)
            /\ first_ch' = note_channels(first_ch,
                               body.channels \o body.groups \o body.ims)
            /\ last_usr' = note_users(last_usr, body.users)
       ELSE UNCHANGED <<users, channels, first_ch, last_usr>>

\* rtm_connect mutated: the stream URL is stored after the stream opened
rtm_connect_url_after(reconnect, use_rtm_start, r, open_ok, op, arg, caught) ==
    /\ handshakes' = handshakes + 1
    /\ reply' = [method |-> connect_method(use_rtm_start),
                 status_code |-> r.status_code, body |-> r.body]
    /\ UNCHANGED <<connected, rd, attaches>>
    /\ IF ~status_ok(r)
       THEN /\ ret' = Raised(op, arg, caught, "SlackConnectionError", None)
            /\ UNCHANGED <<login_data, domain, username, websocket, users,
                           channels, ws_url, opens, streams, inbox, first_ch,
                           last_usr>>
       ELSE IF login_ok(r.body)
       THEN /\ ws_url' = IF open_ok THEN r.body.url ELSE ws_url
            /\ opens' = opens + 1
            /\ IF open_ok
               THEN /\ websocket' = [conn |-> opens + 1, url |-> ws_url']
                    /\ streams' = streams \cup {websocket'}
                    /\ inbox' = NoFrames
                    /\ ret' = Returned(op, arg, caught, <<>>)
                    /\ IF parses(reconnect)
                       THEN parse_slack_login_data(r.body, use_rtm_start)
                       ELSE UNCHANGED <<login_data, domain, username, users,
                                       channels, first_ch, last_usr>>
               ELSE /\ ret' = Raised(op, arg, caught, "SlackConnectionError", "str(e)")
                    /\ UNCHANGED <<login_data, domain, username, websocket,
                                   users, channels, streams, inbox, first_ch,
                                   last_usr>>
       ELSE /\ ret' = Raised(op, arg, caught, "SlackLoginError", None)
            /\ UNCHANGED <<login_data, domain, username, websocket, users,
                           channels, ws_url, opens, streams, inbox, first_ch,
                           last_usr>>

\* rtm_connect(reconnect, use_rtm_start) with the reply r of the API and the
\* outcome open_ok of wsclient.connect; op, arg, caught describe the call
\* that ends with it (rtm_connect itself, or the send that reconnects)
rtm_connect(reconnect, use_rtm_start, r, open_ok, op, arg, caught) ==
    /\ handshakes' = handshakes + 1
    /\ reply' = [method |-> connect_method(use_rtm_start),
                 status_code |-> r.status_code, body |-> r.body]
    /\ UNCHANGED <<connected, rd, attaches>>
    /\ IF ~status_ok(r)
       THEN /\ ret' = Raised(op, arg, caught, "SlackConnectionError", None)
            /\ UNCHANGED <<login_data, domain, username, websocket, users,
                           channels, ws_url, opens, streams, inbox, first_ch,
                           last_usr>>
       ELSE IF login_ok(r.body)
       THEN /\ ws_url' = r.body.url
            /\ opens' = opens + 1
            /\ IF open_ok
               THEN /\ websocket' = [conn |-> opens + 1, url |-> ws_url']
                    /\ streams' = streams \cup {websocket'}
                    /\ inbox' = NoFrames
                    /\ ret' = Returned(op, arg, caught, <<>>)
                    /\ IF parses(reconnect)
                       THEN parse_slack_login_data(r.body, use_rtm_start)
                       ELSE UNCHANGED <<login_data, domain, username, users,
                                       channels, first_ch, last_usr>>
               ELSE /\ ret' = Raised(op, arg, caught, "SlackConnectionError", "str(e)")
                    /\ UNCHANGED <<login_data, domain, username, websocket,
                                   users, channels, streams, inbox, first_ch,
                                   last_usr>>
       ELSE /\ ret' = Raised(op, arg, caught, "SlackLoginError", None)
            /\ UNCHANGED <<login_data, domain, username, websocket, users,
                           channels, ws_url, opens, streams, inbox, first_ch,
                           last_usr>>

Idle == rd.pc = "idle"

RtmConnect ==
    /\ Idle
    /\ handshakes < MaxHandshakes
    /\ \E reconnect \in BOOLEAN, use_rtm_start \in BOOLEAN, r \in Replies,
          open_ok \in BOOLEAN :
          rtm_connect(reconnect, use_rtm_start, r, open_ok, "rtm_connect",
                      [reconnect |-> reconnect, use_rtm_start |-> use_rtm_start],
                      None)
    /\ UNCHANGED <<wire, unawaited, msg_args>>

(***************************************************************************)
(* send_to_websocket.                                                      *)
(***************************************************************************)
\* a value json.dumps cannot serialize
NotJson == "<object>"
SendData ==
    { [type |-> "ping"],
      [type |-> "message", channel |-> "C1", text |-> "hi"],
      [type |-> "message", channel |-> "C1", text |-> NotJson] }

serializable(data) == ~("text" \in DOMAIN data /\ data.text = NotJson)

\* json.dumps(data): the text of the frame
dumps(data) == <<"json", data>>

\* the exception the try block of send_to_websocket ends with, None if none:
\* json.dumps raises on what it cannot serialize, and None has no send
send_raises(data) ==
    IF ~serializable(data) THEN "TypeError"
    ELSE IF websocket = NoneObj THEN "AttributeError"
    ELSE None

\* send_to_websocket mutated: the except branch swallows the failure
send_to_websocket_swallow(data, r, open_ok) ==
    IF send_raises(data) = None
    THEN /\ unawaited' = Append(unawaited, dumps(data))
         /\ ret' = Returned("send_to_websocket", data, None, <<>>)
         /\ UNCHANGED <<server, handshakes, opens, streams, inbox, wire, reply,
                        rd, attaches, history>>
    ELSE /\ ret' = Returned("send_to_websocket", data, send_raises(data), <<>>)
         /\ UNCHANGED <<server, handshakes, opens, streams, inbox, wire,
                        unawaited, reply, rd, attaches, history>>

\* send_to_websocket mutated: the send is made again after a reconnect that
\* succeeded
send_to_websocket_resend(data, r, open_ok) ==
    IF send_raises(data) = None
    THEN /\ unawaited' = Append(unawaited, dumps(data))
         /\ ret' = Returned("send_to_websocket", data, None, <<>>)
         /\ UNCHANGED <<server, handshakes, opens, streams, inbox, wire, reply,
                        rd, attaches, history>>
    ELSE /\ rtm_connect(TRUE, TRUE, r, open_ok, "send_to_websocket", data,
                        send_raises(data))
         /\ wire' = wire
         /\ unawaited' = IF /\ status_ok(r) /\ login_ok(r.body) /\ open_ok
                            /\ serializable(data)
                         THEN Append(unawaited, dumps(data))
                         ELSE unawaited

\* send_to_websocket(data); r and open_ok are what the reconnect meets.
\* self.websocket.send(data) is a coroutine function called without await:
\* the call creates the coroutine and nothing runs it
send_to_websocket(data, r, open_ok) ==
    IF send_raises(data) = None
    THEN /\ unawaited' = Append(unawaited, dumps(data))
         /\ ret' = Returned("send_to_websocket", data, None, <<>>)
         /\ UNCHANGED <<server, handshakes, opens, streams, inbox, wire, reply,
                        rd, attaches, history>>
    ELSE /\ rtm_connect(TRUE, TRUE, r, open_ok, "send_to_websocket", data,
                        send_raises(data))
         /\ UNCHANGED <<wire, unawaited>>

SendToWebsocket ==
    /\ Idle
    /\ \E data \in SendData, r \in Replies, open_ok \in BOOLEAN :
          /\ IF send_raises(data) = None
             THEN Len(unawaited) < MaxSends
             ELSE handshakes < MaxHandshakes
          /\ send_to_websocket(data, r, open_ok)
    /\ UNCHANGED msg_args

(***************************************************************************)
(* rtm_send_message and ping.                                              *)
(***************************************************************************)
\* Python's True and False, where None can be passed too
PyTrue == [bool |-> TRUE]
PyFalse == [bool |-> FALSE]

\* `if reply_broadcast`: None and False are false
truthy(v) == v # NoneObj /\ v.bool

Threads == {None, "100.1"}
Texts == {"hi", NotJson}
MsgChannels == {"C1"}

\* message_json mutated: reply_broadcast is set outside the thread test
message_json_flat(channel, message, thread, reply_broadcast) ==
    LET m0 == [type |-> "message", channel |-> channel, text |-> message]
        m1 == IF thread # None THEN update(m0, "thread_ts", thread) ELSE m0
    IN  IF truthy(reply_broadcast) THEN update(m1, "reply_broadcast", TRUE)
        ELSE m1

\* the frame rtm_send_message builds
message_json(channel, message, thread, reply_broadcast) ==
    LET m0 == [type |-> "message", channel |-> channel, text |-> message]
    IN  IF thread # None
        THEN LET m1 == update(m0, "thread_ts", thread)
             IN  IF truthy(reply_broadcast)
                 THEN update(m1, "reply_broadcast", TRUE)
                 ELSE m1
        ELSE m0

\* what the reconnect of a send of data meets: the reply of the API (one
\* of each outcome: a reconnect reads none of its lists) and the outcome of
\* the stream open; a send that does not fail meets neither
Reconnects(data) ==
    IF send_raises(data) = None
    THEN {<<CHOOSE r \in Replies : TRUE, TRUE>>}
    ELSE {r \in Replies : r.body = FullBody(r.body.ok)} \X BOOLEAN

\* rtm_send_message(channel, message, thread=None, reply_broadcast=None)
RtmSendMessage ==
    /\ Idle
    /\ \E channel \in MsgChannels, message \in Texts, thread \in Threads,
          reply_broadcast \in {NoneObj, PyFalse, PyTrue} :
          LET data == message_json(channel, message, thread, reply_broadcast)
          IN  /\ IF send_raises(data) = None
                 THEN Len(unawaited) < MaxSends
                 ELSE handshakes < MaxHandshakes
              /\ \E m \in Reconnects(data) :
                    send_to_websocket(data, m[1], m[2])
              /\ msg_args' = [channel |-> channel, text |-> message,
                              thread |-> thread,
                              reply_broadcast |-> reply_broadcast]

\* ping()
Ping ==
    /\ Idle
    /\ IF send_raises([type |-> "ping"]) = None
       THEN Len(unawaited) < MaxSends
       ELSE handshakes < MaxHandshakes
    /\ \E m \in Reconnects([type |-> "ping"]) :
          send_to_websocket([type |-> "ping"], m[1], m[2])
    /\ UNCHANGED msg_args

(***************************************************************************)
(* Explicit attach calls.                                                  *)
(***************************************************************************)
AttachUser ==
    /\ Idle
    /\ attaches < MaxAttach
    /\ \E name \in UserNames, user_id \in UserIds, real_name \in RealNames,
          tz \in Timezones :
          /\ users' = attach_user(users, name, user_id, real_name, tz)
          /\ last_usr' = update(last_usr, user_id,
                                User(name, user_id, real_name, tz))
          /\ ret' = Returned("attach_user",
                             User(name, user_id, real_name, tz), None, <<>>)
    /\ attaches' = attaches + 1
    /\ UNCHANGED msg_args
    /\ UNCHANGED <<session, channels, handshakes, opens, streams, inbox, wire,
                   unawaited, reply, rd, first_ch>>

AttachChannel ==
    /\ Idle
    /\ attaches < MaxAttach
    /\ \E name \in ChannelNames, channel_id \in ChannelIds,
          members \in MemberLists \cup {NoneList} :
          /\ channels' = attach_channel(channels, name, channel_id, members)
          /\ first_ch' = note_channels(first_ch,
                             << Channel(name, channel_id,
                                        IF members = NoneList THEN <<>>
                                        ELSE members) >>)
          /\ ret' = Returned("attach_channel",
                             Channel(name, channel_id, members), None, <<>>)
    /\ attaches' = attaches + 1
    /\ UNCHANGED msg_args
    /\ UNCHANGED <<session, users, handshakes, opens, streams, inbox, wire,
                   unawaited, reply, rd, last_usr>>

(***************************************************************************)
(* websocket_safe_read and the _websocket_safe_read coroutine.             *)
(***************************************************************************)
Frames == {<<"a">>, <<"b">>}
Whitespace == {"\n", " ", "\t"}

\* "{0}\n".format(frame)
format(frame) == frame \o <<"\n">>

\* str.rstrip()
RECURSIVE rstrip(_)
rstrip(text) ==
    IF text # <<>> /\ text[Len(text)] \in Whitespace
    THEN rstrip(SubSeq(text, 1, Len(text) - 1))
    ELSE text

\* what websocket.recv() can raise while no frame is there
Faults ==
    { [type |-> "SSLError", errno |-> SSL_WANT_READ],
      [type |-> "SSLError", errno |-> 1],
      [type |-> "ConnectionClosed", errno |-> 0] }

\* the coroutine suspended in `await self.websocket.recv()`
Suspended(r, box) ==
    [rd |-> [r EXCEPT !.pc = "waiting"], inbox |-> box, exc |-> None]
\* the coroutine ended and websocket_safe_read returned or raised
Ended(r, box, exc) ==
    [rd |-> [r EXCEPT !.pc = "idle"], inbox |-> box, exc |-> exc]

\* readop.set_result on the Future of r: a Future takes one result
set_twice_error(r) == IF r.done THEN "InvalidStateError" ELSE None

\* the `while True` loop of the non-blocking branch, run until recv has no
\* frame to give or an exception leaves it
RECURSIVE drain(_, _)
drain(r, box) ==
    IF box = <<>> THEN Suspended(r, box)
    ELSE LET data == r.data \o format(Head(box))
         IN  IF set_twice_error(r) # None
             THEN Ended([r EXCEPT !.data = data], Tail(box), set_twice_error(r))
             ELSE drain([r EXCEPT !.data = data, !.done = TRUE,
                                  !.result = rstrip(data)],
                        Tail(box))

\* the blocking branch: one recv, one set_result
read_one(r, box) ==
    IF box = <<>> THEN Suspended(r, box)
    ELSE LET data == r.data \o format(Head(box))
         IN  Ended([r EXCEPT !.data = data, !.done = TRUE,
                             !.result = rstrip(data)],
                   Tail(box), None)

\* _websocket_safe_read from where r stands, on the frames box
run_read(r, box) == IF r.blocking THEN read_one(r, box) ELSE drain(r, box)

\* recv raised fault e into the coroutine: the non-blocking branch returns
\* '' from the coroutine on SSLError errno 2 and re-raises the rest; then
\* websocket_safe_read returns readop.result(), which raises when the Future
\* has no result
recv_raised(r, e) ==
    IF ~r.blocking /\ e.type = "SSLError" /\ e.errno = SSL_WANT_READ
    THEN IF r.done THEN None ELSE "InvalidStateError"
    ELSE e.type

\* the end of a websocket_safe_read call
ReadEnds(out) ==
    /\ rd' = out.rd
    /\ inbox' = out.inbox
    /\ IF out.rd.pc = "waiting" THEN UNCHANGED ret
       ELSE IF out.exc = None
       THEN ret' = Returned("websocket_safe_read",
                            [blocking |-> out.rd.blocking], None, out.rd.result)
       ELSE ret' = Raised("websocket_safe_read",
                          [blocking |-> out.rd.blocking], None, out.exc, None)

\* websocket_safe_read(blocking): a new Future, then the coroutine runs
WebsocketSafeRead ==
    /\ Idle
    /\ \E blocking \in BOOLEAN :
          LET r0 == [pc |-> "idle", blocking |-> blocking, data |-> <<>>,
                     done |-> FALSE, result |-> <<>>, avail |-> inbox,
                     fault |-> NoneObj]
          IN  IF websocket = NoneObj
              THEN ReadEnds(Ended(r0, inbox, "AttributeError"))
              ELSE ReadEnds(run_read(r0, inbox))
    /\ UNCHANGED <<server, handshakes, opens, streams, wire, unawaited, reply,
                   attaches, msg_args, history>>

\* a frame arrived for the suspended recv: the coroutine goes on
RecvResume ==
    /\ rd.pc = "waiting"
    /\ inbox # <<>>
    /\ ReadEnds(run_read(rd, inbox))
    /\ UNCHANGED <<server, handshakes, opens, streams, wire, unawaited, reply,
                   attaches, msg_args, history>>

\* the suspended recv raises
RecvRaise ==
    /\ rd.pc = "waiting"
    /\ inbox = <<>>
    /\ \E e \in Faults :
          ReadEnds(Ended([rd EXCEPT !.fault = e], inbox, recv_raised(rd, e)))
    /\ UNCHANGED <<server, handshakes, opens, streams, wire, unawaited, reply,
                   attaches, msg_args, history>>

\* the peer sends a frame on the open stream
FrameArrive ==
    /\ websocket # NoneObj
    /\ Len(inbox) < MaxInbox
    /\ \E f \in Frames : inbox' = Append(inbox, f)
    /\ UNCHANGED <<server, handshakes, opens, streams, wire, unawaited, reply,
                   rd, ret, attaches, msg_args, history>>

\* the replies to rtm.connect: that method returns no channel or user lists
LightReplies == {r \in Replies : r.body.channels = <<>> \/ ~login_ok(r.body)
                                      \/ ~status_ok(r)}

\* a handshake of the lightweight kind (use_rtm_start=False)
RtmConnectLight ==
    /\ Idle
    /\ handshakes < MaxHandshakes
    /\ \E reconnect \in BOOLEAN, r \in LightReplies, open_ok \in BOOLEAN :
          rtm_connect(reconnect, FALSE, r, open_ok, "rtm_connect",
                      [reconnect |-> reconnect, use_rtm_start |-> FALSE], None)
    /\ UNCHANGED <<wire, unawaited, msg_args>>

\* a handshake of the full kind (use_rtm_start=True), first connect
RtmStart ==
    /\ Idle
    /\ handshakes < MaxHandshakes
    /\ \E r \in Replies, open_ok \in BOOLEAN :
          rtm_connect(FALSE, TRUE, r, open_ok, "rtm_connect",
                      [reconnect |-> FALSE, use_rtm_start |-> TRUE], None)
    /\ UNCHANGED <<wire, unawaited, msg_args>>

Init ==
    /\ login_data = NoneObj
    /\ domain = None
    /\ username = None
    /\ websocket = NoneObj
    /\ users = [x \in {} |-> x]
    /\ channels = <<>>
    /\ connected = FALSE
    /\ ws_url = None
    /\ handshakes = 0
    /\ opens = 0
    /\ streams = {}
    /\ inbox = NoFrames
    /\ wire = <<>>
    /\ unawaited = <<>>
    /\ reply = NoReply
    /\ rd = [pc |-> "idle", blocking |-> FALSE, data |-> <<>>, done |-> FALSE,
             result |-> <<>>, avail |-> NoFrames, fault |-> NoneObj]
    /\ ret = Returned("__init__", NoneObj, None, <<>>)
    /\ attaches = 0
    /\ msg_args = NoneObj
    /\ first_ch = [x \in {} |-> x]
    /\ last_usr = [x \in {} |-> x]

\* the session: handshakes and sends
Next ==
    \/ RtmConnect
    \/ SendToWebsocket

Spec == Init /\ [][Next]_vars

\* the Directory: snapshot parses and explicit attaches
NextDir ==
    \/ RtmStart
    \/ AttachUser
    \/ AttachChannel

SpecDir == Init /\ [][NextDir]_vars

\* the stream: reads on a session connected by lightweight handshakes
NextRead ==
    \/ RtmConnectLight
    \/ FrameArrive
    \/ WebsocketSafeRead
    \/ RecvResume
    \/ RecvRaise

SpecRead == Init /\ [][NextRead]_vars

\* the facade: messages and pings on a session connected by lightweight
\* handshakes
NextMsg ==
    \/ RtmConnectLight
    \/ RtmSendMessage
    \/ Ping

SpecMsg == Init /\ [][NextMsg]_vars

\* the calls made so far that reached the API, the stream or the Directory
calls == handshakes + attaches + Len(unawaited)

\* every operation, in any order: connects and reconnects of both kinds,
\* sends, reads and explicit attaches; a run ends with its last call, and
\* the peer sends a frame when none is pending
NextAll ==
    \/ calls < MaxCalls /\ RtmConnectLight
    \/ calls < MaxCalls /\ RtmStart
    \/ calls < MaxCalls /\ Ping
    \/ calls < MaxCalls /\ AttachUser
    \/ calls < MaxCalls /\ AttachChannel
    \/ calls < MaxCalls /\ inbox = <<>> /\ FrameArrive
    \/ calls < MaxCalls /\ WebsocketSafeRead
    \/ calls < MaxCalls /\ RecvResume
    \/ calls < MaxCalls /\ RecvRaise

SpecAll == Init /\ [][NextAll]_vars

(***************************************************************************)
(* Properties.                                                             *)
(***************************************************************************)
\* the step made a handshake request
Handshake == handshakes' = handshakes + 1

\* the step opened a stream and stored its handle
Opened == websocket' \in (streams' \ streams)

\* the stored records are the given ones, each with the fields it came with
Keeps(stored, given) ==
    /\ Len(stored) = Len(given)
    /\ \A i \in 1..Len(given) : \A f \in DOMAIN given[i] :
          f \in DOMAIN stored[i] /\ stored[i][f] = given[i][f]

\* the login snapshot ld is the handshake response body
IsResponse(ld, body) ==
    /\ ld # NoneObj
    /\ ld.ok = body.ok /\ ld.url = body.url
    /\ ld.team = body.team /\ ld.self = body.self
    /\ Keeps(ld.channels, body.channels) /\ Keeps(ld.groups, body.groups)
    /\ Keeps(ld.ims, body.ims) /\ Keeps(ld.users, body.users)

\* C1: after a connect (rtm_connect with reconnect=false) that completes
\* without error, connected is true, the stored stream URL is the url of the
\* handshake response and the response is retained as the login snapshot.
C1_ConnectSetsSession ==
    (ret.op = "rtm_connect" /\ ~ret.arg.reconnect /\ ret.exc = None)
        => /\ connected = TRUE
           /\ ws_url = reply.body.url
           /\ IsResponse(login_data, reply.body)

\* C2: a handshake answered with a success status and ok=false ends the
\* call with SlackLoginError and changes nothing of the session: connected,
\* stream URL, stream handle, login snapshot and Directory stay as they
\* were, and no stream open is attempted.
C2_LoginErrorLeavesState ==
    [][(Handshake /\ reply'.status_code = HTTP_OK /\ ~reply'.body.ok)
          => /\ ret'.exc = "SlackLoginError"
             /\ UNCHANGED <<server, opens, streams, inbox>>]_vars

\* a fresh session whose connect was refused with ok=false
C2_Witness ==
    /\ ret.exc = "SlackLoginError"
    /\ ~connected /\ ws_url = None /\ websocket = NoneObj /\ opens = 0

\* C3: a handshake answered with a non-success status ends the call with
\* SlackConnectionError whatever the ok field of the body is, attempts no
\* stream open and changes nothing of the session or the Directory.
C3_StatusErrorLeavesState ==
    [][(Handshake /\ reply'.status_code # HTTP_OK)
          => /\ ret'.exc = "SlackConnectionError"
             /\ UNCHANGED <<server, opens, streams, inbox>>]_vars

\* a handshake refused for its status although its body says ok=true
C3_Witness ==
    /\ ret.exc = "SlackConnectionError"
    /\ reply.method # None /\ reply.status_code # HTTP_OK /\ reply.body.ok
    /\ opens = 0

\* the step is a reconnect: rtm_connect(reconnect=True) called directly or
\* by a send that failed
IsReconnect(r) ==
    \/ r.op = "send_to_websocket"
    \/ r.op = "rtm_connect" /\ r.arg.reconnect

\* C4: a reconnect, called directly or by a failed send, leaves the users
\* and the channels of the Directory exactly as they were, whatever its
\* outcome and whatever lists its response carries.
C4_ReconnectKeepsDirectory ==
    [][(Handshake /\ IsReconnect(ret')) => UNCHANGED <<users, channels>>]_vars

\* a successful full-snapshot reconnect of a populated session, whose
\* response lists a user the Directory does not hold
C4_Witness ==
    /\ ret.op \in {"rtm_connect", "send_to_websocket"}
    /\ IsReconnect(ret) /\ ret.exc = None
    /\ reply.method = "rtm.start"
    /\ channels # <<>>
    /\ reply.body.users # <<>> /\ reply.body.users[1].id \notin DOMAIN users

\* C5: a send whose try block fails makes exactly one handshake request
\* before it returns; it returns normally when that reconnect succeeds and
\* raises the reconnect's error when it fails.
C5_FailedSendReconnectsOnce ==
    [][(ret'.op = "send_to_websocket" /\ ret'.caught # None
            /\ (ret' # ret \/ handshakes' # handshakes))
          => /\ handshakes' = handshakes + 1
             /\ IF reply'.status_code = HTTP_OK /\ reply'.body.ok /\ Opened
                THEN ret'.exc = None
                ELSE ret'.exc \in {"SlackConnectionError", "SlackLoginError"}]_vars

\* a send that failed to serialize its frame and whose reconnect succeeded
C5_Witness ==
    /\ ret.op = "send_to_websocket" /\ ret.caught = "TypeError"
    /\ ret.exc = None /\ websocket.conn = opens

\* a websocket_safe_read call is suspended / has ended as the last call
ReadWaiting == rd.pc = "waiting"
ReadEnded == rd.pc = "idle" /\ ret.op = "websocket_safe_read"

\* frames joined by newlines, and frames each followed by a newline
RECURSIVE Lines(_)
Lines(frames) ==
    IF frames = <<>> THEN <<>> ELSE Head(frames) \o <<"\n">> \o Lines(Tail(frames))
JoinLines(frames) ==
    IF frames = <<>> THEN <<>> ELSE SubSeq(Lines(frames), 1, Len(Lines(frames)) - 1)

\* C6: a non-blocking websocket_safe_read on a connected session with no
\* frame available ends, returning the empty string, without waiting for a
\* frame.
C6_EmptyReadReturnsEmpty ==
    (websocket # NoneObj /\ ~rd.blocking /\ rd.avail = NoFrames
        /\ (ReadWaiting \/ ReadEnded))
        => (ReadEnded /\ ret.exc = None /\ ret.val = <<>>)

\* C7: a non-blocking websocket_safe_read with n >= 1 frames available
\* returns, unless the transport fails, all n frames in arrival order joined
\* by newlines, having consumed exactly those frames, and raises no error.
C7_ReadReturnsAllFrames ==
    (ReadEnded /\ websocket # NoneObj /\ ~rd.blocking /\ Len(rd.avail) >= 1
        /\ ret.exc \notin {"SSLError", "ConnectionClosed"})
        => /\ ret.exc = None
           /\ ret.val = JoinLines(rd.avail)
           /\ rd.data = Lines(rd.avail)

\* C8: a websocket_safe_read whose recv raises SSLError with errno 2 returns
\* the empty string and raises nothing; any other exception of recv is
\* raised to the caller.
C8_WantReadIsNoData ==
    (ReadEnded /\ rd.fault # NoneObj)
        => IF rd.fault.type = "SSLError" /\ rd.fault.errno = SSL_WANT_READ
           THEN ret.exc = None /\ ret.val = <<>>
           ELSE ret.exc = rd.fault.type

\* C9: no two channels share an identifier, each stored channel has the name
\* and members of the first attach of its identifier, and every identifier
\* ever attached is in the list (an attach of an absent identifier appends).
ChannelIdsHeld == {channels[i].id : i \in 1..Len(channels)}
C9_ChannelsFirstAttachWins ==
    /\ \A i, j \in 1..Len(channels) : i # j => channels[i].id # channels[j].id
    /\ \A i \in 1..Len(channels) : channels[i] = first_ch[channels[i].id]
    /\ ChannelIdsHeld = DOMAIN first_ch

\* C10: the users mapping holds one User per identifier ever attached, with
\* the name, real name and timezone of the latest attach of that identifier,
\* and an attach_user call leaves the entries of other identifiers alone.
C10_UsersLastAttachWins ==
    /\ users = last_usr
    /\ [][/\ users' = last_usr'
          /\ (ret'.op = "attach_user" /\ attaches' = attaches + 1)
                => \A id \in DOMAIN users \ {ret'.arg.id} :
                      id \in DOMAIN users' /\ users'[id] = users[id]]_vars

\* an identifier attached twice, by a snapshot and by an explicit attach,
\* with different names, next to another identifier
C10_Witness ==
    /\ ret.op = "attach_user"
    /\ reply.method # None /\ reply.body.users # <<>>
    /\ reply.body.users[1].id = ret.arg.id
    /\ reply.body.users[1].name # ret.arg.name
    /\ users[ret.arg.id].name = ret.arg.name
    /\ Cardinality(DOMAIN users) = 2

\* C11: the frame rtm_send_message hands to send_to_websocket has
\* type "message", the given channel and text; thread_ts, equal to the
\* thread, exactly when a thread is given; reply_broadcast, true, exactly
\* when a thread is given and reply_broadcast is true; and nothing else.
C11_MessageFrame ==
    (ret.op = "send_to_websocket" /\ ret.arg.type = "message"
        /\ msg_args # NoneObj)
        => /\ ret.arg.channel = msg_args.channel
           /\ ret.arg.text = msg_args.text
           /\ ("thread_ts" \in DOMAIN ret.arg) <=> (msg_args.thread # None)
           /\ (msg_args.thread # None) => ret.arg.thread_ts = msg_args.thread
           /\ ("reply_broadcast" \in DOMAIN ret.arg)
                 <=> (msg_args.thread # None /\ msg_args.reply_broadcast = PyTrue)
           /\ ("reply_broadcast" \in DOMAIN ret.arg)
                 => ret.arg.reply_broadcast = TRUE
           /\ DOMAIN ret.arg \subseteq {"type", "channel", "text", "thread_ts",
                                        "reply_broadcast"}

\* a message sent with reply_broadcast true and no thread
C11_Witness ==
    /\ ret.op = "send_to_websocket" /\ ret.arg.type = "message"
    /\ msg_args # NoneObj
    /\ msg_args.thread = None /\ msg_args.reply_broadcast = PyTrue
    /\ "reply_broadcast" \notin DOMAIN ret.arg

\* the step is a connect (reconnect=false) by the full handshake that got
\* a success status, ok=true and an open stream
FullConnect ==
    /\ Handshake /\ ret'.op = "rtm_connect"
    /\ ~ret'.arg.reconnect /\ ret'.arg.use_rtm_start
    /\ reply'.status_code = HTTP_OK /\ reply'.body.ok /\ Opened

\* the channel records of a response, in the order they are parsed
ChannelRecords(body) == body.channels \o body.groups \o body.ims

\* C12: the parse of a snapshot ends without error whatever optional fields
\* its records lack; every channel it appends has the name and members of
\* its record, the identifier for a missing name and [] for missing
\* members; every user it leaves has the fields of its record, "unknown"
\* for a missing tz and the name for a missing real_name.
C12_ParseFillsDefaults ==
    [][FullConnect =>
         LET L == ChannelRecords(reply'.body)
             U == reply'.body.users
         IN  /\ ret'.exc = None
             /\ \A i \in (Len(channels) + 1)..Len(channels') :
                   LET ch == channels'[i]
                       ks == {k \in 1..Len(L) : L[k].id = ch.id}
                   IN  /\ ks # {}
                       /\ ch.name = IF "name" \in DOMAIN L[Min(ks)]
                                    THEN L[Min(ks)].name ELSE ch.id
                       /\ ch.members = IF "members" \in DOMAIN L[Min(ks)]
                                       THEN L[Min(ks)].members ELSE <<>>
             /\ \A j \in 1..Len(U) :
                   (\A j2 \in (j + 1)..Len(U) : U[j2].id # U[j].id)
                     => /\ U[j].id \in DOMAIN users'
                        /\ users'[U[j].id].name = U[j].name
                        /\ users'[U[j].id].tz = IF "tz" \in DOMAIN U[j]
                                                THEN U[j].tz ELSE "unknown"
                        /\ users'[U[j].id].real_name =
                              IF "real_name" \in DOMAIN U[j]
                              THEN U[j].real_name ELSE U[j].name]_vars

\* a full connect whose snapshot has users without tz and without
\* real_name, on a Directory holding a channel that came without name and
\* members
C12_Witness ==
    /\ ret.op = "rtm_connect" /\ ret.exc = None
    /\ ~ret.arg.reconnect /\ ret.arg.use_rtm_start
    /\ reply.body.users # <<>> /\ "real_name" \notin DOMAIN reply.body.users[1]
    /\ "U1" \in DOMAIN users /\ users["U1"].tz = "unknown"
    /\ "U2" \in DOMAIN users /\ users["U2"].real_name = users["U2"].name
    /\ \E i \in 1..Len(channels) :
          channels[i].name = channels[i].id /\ channels[i].members = <<>>

\* C13: at most one stream opened by the Server is open at any time: when a
\* new stream is opened and stored, the one held before is no longer open.
C13_OneLiveStream ==
    /\ Cardinality(streams) <= 1
    /\ websocket # NoneObj => streams = {websocket}

\* C14: when a send on a connected session ends without any failure, the
\* serialized frame has been written to the stream, once, and is not left
\* as a send that was created and never run.
C14_SendWrites ==
    (ret.op = "send_to_websocket" /\ ret.caught = None /\ ret.exc = None)
        => /\ wire # <<>>
           /\ wire[Len(wire)] = dumps(ret.arg)
           /\ \A i \in 1..Len(unawaited) : unawaited[i] # dumps(ret.arg)

\* C15: every error a connect or reconnect ends with carries its cause: the
\* error has a message, for the non-success status, for ok=false and for
\* the failed stream open.
C15_ErrorsCarryCause ==
    (ret.exc \in {"SlackConnectionError", "SlackLoginError"})
        => ret.msg # None

\* a connect or reconnect that ended without error
ConnectDone ==
    /\ Handshake /\ ret'.op = "rtm_connect" /\ ret'.exc = None

ChannelIdSet(chs) == {chs[i].id : i \in 1..Len(chs)}

\* C17: across every step of any sequence of connect, reconnect, send,
\* receive, attach_user and attach_channel operations, the sets of user and
\* channel identifiers of the Directory only grow, also in a step that
\* fails part-way.
C17_IdentifiersOnlyGrow ==
    [][/\ DOMAIN users \subseteq DOMAIN users'
       /\ ChannelIdSet(channels) \subseteq ChannelIdSet(channels')]_vars

C17_Witness ==
    /\ ret.exc = "SlackConnectionError" /\ ret.msg = "str(e)"
    /\ ws_url = reply.body.url /\ reply.method = "rtm.start"
    /\ reply.body.channels # <<>>
    /\ ChannelIdSet(channels) # {} /\ DOMAIN users # {}
    /\ websocket # NoneObj /\ websocket.url # ws_url

\* the channels of the records L, in order, without the records whose
\* identifier occurred earlier in L
RECURSIVE FirstById(_, _)
FirstById(L, seen) ==
    IF L = <<>> THEN <<>>
    ELSE LET a == channel_args(Head(L))
         IN  IF a.id \in seen THEN FirstById(Tail(L), seen)
             ELSE << Channel(a.name, a.id, a.members) >>
                      \o FirstById(Tail(L), seen \cup {a.id})

IsPrefix(s, t) == Len(s) <= Len(t) /\ \A i \in 1..Len(s) : t[i] = s[i]

\* C18: after a successful full connect on a fresh session the channel
\* sequence is the snapshot's channels, groups and ims lists in that order,
\* without the records whose identifier occurred earlier; channels attached
\* later are appended and never reorder the ones held.
C18_SnapshotOrder ==
    [][/\ (FullConnect /\ handshakes = 0 /\ attaches = 0)
            => channels' = FirstById(ChannelRecords(reply'.body), {})
       /\ IsPrefix(channels, channels')]_vars

\* the handshake of the step got a success status and ok=true
HandshakeOk ==
    Handshake /\ reply'.status_code = HTTP_OK /\ reply'.body.ok

\* C19 as stated: the stored stream URL and the handle agree: a handle held
\* was opened against the stored URL, and the stored URL changes only in a
\* call that installs a handle opened against it (a reconnect whose stream
\* open fails leaves the stored URL as it was).
C19_UrlAgreesWithHandle ==
    [][/\ websocket' # NoneObj => websocket'.url = ws_url'
       /\ ws_url' # ws_url => (Opened /\ websocket'.url = ws_url')]_vars

\* C19, amended: the stored stream URL is the url of the latest handshake
\* that got a success status and ok=true, whether or not the stream open
\* that followed succeeded; the handle changes only by a successful open,
\* and is then opened against the stored URL; a handshake that succeeds
\* and whose stream open fails stores the new URL and keeps the handle.
C19_UrlFollowsHandshake ==
    [][/\ IF HandshakeOk THEN ws_url' = reply'.body.url
                         ELSE ws_url' = ws_url
       /\ websocket' # websocket => (Opened /\ websocket'.url = ws_url')
       /\ (HandshakeOk /\ ret'.exc # None) => websocket' = websocket]_vars

C19_Witness ==
    /\ ret.op = "rtm_connect" /\ ret.arg.reconnect
    /\ ret.exc = "SlackConnectionError" /\ ret.msg = "str(e)"
    /\ reply.status_code = HTTP_OK /\ reply.body.ok
    /\ ws_url = reply.body.url
    /\ websocket # NoneObj /\ websocket.url # ws_url

\* C20: when a send fails and the reconnect that follows succeeds, the
\* frame of that send is neither written to the stream nor sent again, and
\* the send returns normally, with None as for a send that did not fail.
C20_FailedSendDropsFrame ==
    [][(ret'.op = "send_to_websocket" /\ ret'.caught # None
            /\ Handshake /\ Opened)
          => /\ ret'.exc = None /\ ret'.val = <<>>
             /\ wire' = wire /\ unawaited' = unawaited
             /\ \A i \in 1..Len(wire') : wire'[i] # dumps(ret'.arg)]_vars

C20_Witness ==
    /\ ret.op = "send_to_websocket" /\ ret.caught = "AttributeError"
    /\ serializable(ret.arg)
    /\ ret.exc = None /\ ret.val = <<>>
    /\ websocket # NoneObj /\ websocket.conn = opens
    /\ wire = <<>> /\ unawaited = <<>>

====
